---- MODULE Spec2Model ----
(***************************************************************************)
(* Model of src/common/calculadora.rs: the tolerant decoders, the request  *)
(* shaper, the evaluation orchestrator, the error salvage extractor and    *)
(* the tool operation evaluar_supuesto_excedencia.                         *)
(*                                                                         *)
(* A Rust string is a sequence of one-character strings, so that find,     *)
(* split, slicing, to_lowercase and parsing are computed as the code       *)
(* computes them.  Positions are 1-based; 0 stands for Option::None of a   *)
(* find.  The character o-acute stands for the one non-ASCII letter of the *)
(* report texts.                                                           *)
(***************************************************************************)
EXTENDS Integers, Sequences, FiniteSets, TLC

VARIABLES
    calls,        \* the concurrent calls of the operation, each with its own values
    pc,           \* position of the modelled run
    raw,          \* the caller's JSON arguments (decoder specification)
    decoded,      \* result of decoding them into ExcedenciaDirectParams
    wire,         \* serde_json::to_value of the shaped request's input
    echo,         \* result of decoding wire back into ExcedenciaInput
    parts,        \* how the engine side put a diagnostic text together
    text,         \* the diagnostic text handed to the salvage extractor
    extracted,    \* what extract_json_from_string returned for text
    engine,       \* what the ruleset load and the engine's evaluate gave the task
    params,       \* direct_params of one call of the tool operation
    request,      \* the ExcedenciaRequest moved into the blocking task
    joined,       \* what awaiting the JoinHandle yielded
    result        \* what evaluar_supuesto_excedencia returned

vars == <<calls, pc, raw, decoded, wire, echo, parts, text, extracted, engine, params, request, joined, result>>

Nil == "nil"

(***************************************************************************)
(* Bounds of the model.                                                    *)
(***************************************************************************)
\* native integers offered to the numeric decoder are 0..MaxInt
MaxInt == 3

\* a validation envelope lists 1..MaxIssues issues
MaxIssues == 2

\* calls of the operation that run interleaved
MaxCalls == 2

(***************************************************************************)
(* Strings.                                                                *)
(***************************************************************************)
Min(S) == CHOOSE x \in S : \A y \in S : x <= y

\* pat occurs in s at position i
MatchesAt(s, pat, i) ==
    /\ i >= 1
    /\ i + Len(pat) - 1 <= Len(s)
    /\ \A k \in 1..Len(pat) : s[i + k - 1] = pat[k]

\* s[from..].find(pat), as an absolute position; 0 when there is none
FindFrom(s, pat, from) ==
    LET hits == {i \in from..(Len(s) - Len(pat) + 1) : MatchesAt(s, pat, i)}
    IN  IF hits = {} THEN 0 ELSE Min(hits)

\* s.find(pat)
Find(s, pat) == FindFrom(s, pat, 1)

\* s.contains(pat)
Contains(s, pat) == Find(s, pat) # 0

StartsWith(s, pat) == MatchesAt(s, pat, 1)

UpperLetters == <<"A", "B", "C", "D", "E", "F", "G", "H", "I", "J", "K", "L", "M", "N", "O", "P", "Q", "R", "S", "T", "U", "V", "W", "X", "Y", "Z">>

LowerLetters == <<"a", "b", "c", "d", "e", "f", "g", "h", "i", "j", "k", "l", "m", "n", "o", "p", "q", "r", "s", "t", "u", "v", "w", "x", "y", "z">>

ToLowerChar(c) ==
    IF \E i \in 1..Len(UpperLetters) : UpperLetters[i] = c
    THEN LowerLetters[CHOOSE i \in 1..Len(UpperLetters) : UpperLetters[i] = c]
    ELSE c

\* str::to_lowercase
ToLowercase(s) == [i \in 1..Len(s) |-> ToLowerChar(s[i])]

(***************************************************************************)
(* JSON values as serde_json hands them to a visitor, and Result values.   *)
(***************************************************************************)
JNull == [t |-> "null"]

JBool(b) == [t |-> "bool", b |-> b]

JU64(n) == [t |-> "u64", n |-> n]

JI64(n) == [t |-> "i64", n |-> n]

JF64(f) == [t |-> "f64", f |-> f]

JStr(s) == [t |-> "str", s |-> s]

JArray == [t |-> "array"]

\* the key is not in the object at all
JAbsent == [t |-> "absent"]

Ok(v) == [ok |-> TRUE, val |-> v]

Err(e) == [ok |-> FALSE, err |-> e]

Some(v) == [some |-> TRUE, v |-> v]

None == [some |-> FALSE]

(***************************************************************************)
(* f64 values: m / 10^d in lowest form, the infinities and NaN.            *)
(***************************************************************************)
RECURSIVE Normalize(_, _)
Normalize(m, d) ==
    IF d > 0 /\ m % 10 = 0 THEN Normalize(m \div 10, d - 1)
    ELSE [k |-> "fin", m |-> m, d |-> d]

IsFinite(f) == f.k = "fin"

\* `value as f64` of an i64 or u64
IntAsF64(n) == Normalize(n, 0)

Digits == <<"0", "1", "2", "3", "4", "5", "6", "7", "8", "9">>

IsDigit(c) == \E i \in 1..Len(Digits) : Digits[i] = c

\* the position just past the run of digits that starts at i
DigitsEnd(s, i) == Min({j \in i..(Len(s) + 1) : j = Len(s) + 1 \/ ~IsDigit(s[j])})

\* the number written by the digits s[i..j-1]
RECURSIVE NatOf(_, _, _)
NatOf(s, i, j) == IF j <= i THEN 0 ELSE NatOf(s, i, j - 1) * 10 + ((CHOOSE x \in 1..Len(Digits) : Digits[x] = s[j - 1]) - 1)

RECURSIVE Pow10(_)
Pow10(n) == IF n <= 0 THEN 1 ELSE 10 * Pow10(n - 1)

\* the f64 written as mant / 10^d, negated when neg
MakeF64(neg, mant, d) ==
    IF d >= 0 THEN Ok(Normalize(IF neg THEN 0 - mant ELSE mant, d))
    ELSE Ok(Normalize((IF neg THEN 0 - mant ELSE mant) * Pow10(0 - d), 0))

\* the exponent digits u[es..], which must reach the end of the string
ParseExpDigits(u, neg, mant, nfrac, eneg, es) ==
    IF es > Len(u) \/ DigitsEnd(u, es) # Len(u) + 1 THEN Err(Nil)
    ELSE MakeF64(neg, mant,
                 IF eneg THEN nfrac + NatOf(u, es, Len(u) + 1)
                 ELSE nfrac - NatOf(u, es, Len(u) + 1))

\* after the mantissa (integer digits u[1..ie-1], fraction digits u[fs..fe-1]):
\* the end of the string, or e or E, an optional sign and the exponent digits
ParseExponent(u, neg, ie, fs, fe) ==
    IF (ie - 1) + (fe - fs) = 0 THEN Err(Nil)
    ELSE IF fe = Len(u) + 1
    THEN MakeF64(neg, NatOf(u, 1, ie) * Pow10(fe - fs) + NatOf(u, fs, fe), fe - fs)
    ELSE IF u[fe] \notin {"e", "E"} THEN Err(Nil)
    ELSE ParseExpDigits(u, neg, NatOf(u, 1, ie) * Pow10(fe - fs) + NatOf(u, fs, fe),
                        fe - fs,
                        fe + 1 <= Len(u) /\ u[fe + 1] = "-",
                        IF fe + 1 <= Len(u) /\ u[fe + 1] \in {"+", "-"}
                        THEN fe + 2 ELSE fe + 1)

\* the mantissa: digits, then optionally a point and digits
ParseMantissa(u, neg, ie) ==
    IF ie <= Len(u) /\ u[ie] = "."
    THEN ParseExponent(u, neg, ie, ie + 1, DigitsEnd(u, ie + 1))
    ELSE ParseExponent(u, neg, ie, ie, ie)

\* the string after its sign: inf, infinity or nan in any letter case, or a decimal
ParseUnsigned(u, neg) ==
    IF ToLowercase(u) \in {<<"i", "n", "f">>, <<"i", "n", "f", "i", "n", "i", "t", "y">>} THEN Ok([k |-> "inf", neg |-> neg])
    ELSE IF ToLowercase(u) = <<"n", "a", "n">> THEN Ok([k |-> "nan"])
    ELSE ParseMantissa(u, neg, DigitsEnd(u, 1))

\* str::parse::<f64>: [sign] (inf | infinity | nan | digits [. digits] [e [sign] digits]),
\* the whole string, no surrounding white space, at least one mantissa digit
ParseF64(s) ==
    IF Len(s) >= 1 /\ s[1] \in {"+", "-"}
    THEN ParseUnsigned(SubSeq(s, 2, Len(s)), s[1] = "-")
    ELSE ParseUnsigned(s, FALSE)

(***************************************************************************)
(* The tolerant decoders.                                                  *)
(***************************************************************************)
InvalidBooleanString == <<"i", "n", "v", "a", "l", "i", "d", " ", "b", "o", "o", "l", "e", "a", "n", " ", "s", "t", "r", "i", "n", "g", ":", " ">>

InvalidNumberString == <<"i", "n", "v", "a", "l", "i", "d", " ", "n", "u", "m", "b", "e", "r", " ", "s", "t", "r", "i", "n", "g", ":", " ">>

InvalidType == <<"i", "n", "v", "a", "l", "i", "d", " ", "t", "y", "p", "e", ",", " ", "e", "x", "p", "e", "c", "t", "e", "d", " ">>

MissingField == <<"m", "i", "s", "s", "i", "n", "g", " ", "f", "i", "e", "l", "d", " ">>

\* deserialize_bool_or_string with visit_str comparing the literal itself
DeserializeBoolExactCase(v) ==
    CASE v.t = "bool" -> Ok(v.b)
      [] v.t = "str" ->
            IF v.s = <<"t", "r", "u", "e">> THEN Ok(TRUE)
            ELSE IF v.s = <<"f", "a", "l", "s", "e">> THEN Ok(FALSE)
            ELSE Err(InvalidBooleanString \o v.s)
      [] OTHER -> Err(InvalidType \o <<"b", "o", "o", "l", " ", "o", "r", " ", "s", "t", "r", "i", "n", "g">>)

DeserializeBoolOrString(v) ==
    CASE v.t = "bool" -> Ok(v.b)
      [] v.t = "str" ->
            LET low == ToLowercase(v.s)
            IN  IF low = <<"t", "r", "u", "e">> THEN Ok(TRUE)
                ELSE IF low = <<"f", "a", "l", "s", "e">> THEN Ok(FALSE)
                ELSE Err(InvalidBooleanString \o v.s)
      [] OTHER -> Err(InvalidType \o <<"b", "o", "o", "l", " ", "o", "r", " ", "s", "t", "r", "i", "n", "g">>)

\* deserialize_f64_or_string whose visitor lacks visit_u64 and visit_i64
DeserializeF64NoIntegers(v) ==
    CASE v.t = "f64" -> Ok(Some(v.f))
      [] v.t = "str" ->
            LET p == ParseF64(v.s)
            IN  IF p.ok THEN Ok(Some(p.val)) ELSE Err(InvalidNumberString \o v.s)
      [] v.t = "null" -> Ok(None)
      [] OTHER -> Err(InvalidType \o <<"f", "6", "4", ",", " ", "s", "t", "r", "i", "n", "g", ",", " ", "o", "r", " ", "n", "u", "l", "l">>)

DeserializeF64OrString(v) ==
    CASE v.t = "f64" -> Ok(Some(v.f))
      [] v.t \in {"i64", "u64"} -> Ok(Some(IntAsF64(v.n)))
      [] v.t = "str" ->
            LET p == ParseF64(v.s)
            IN  IF p.ok THEN Ok(Some(p.val)) ELSE Err(InvalidNumberString \o v.s)
      [] v.t = "null" -> Ok(None)
      [] OTHER -> Err(InvalidType \o <<"f", "6", "4", ",", " ", "s", "t", "r", "i", "n", "g", ",", " ", "o", "r", " ", "n", "u", "l", "l">>)

\* a derived String field: the key must be there and hold a string
FieldString(v, name) ==
    CASE v.t = "absent" -> Err(MissingField \o name)
      [] v.t = "str" -> Ok(v.s)
      [] OTHER -> Err(InvalidType \o <<"a", " ", "s", "t", "r", "i", "n", "g">>)

\* familia_monoparental: deserialize_with, no default
FieldFamiliaMonoparental(v) ==
    IF v.t = "absent" THEN Err(MissingField \o <<"f", "a", "m", "i", "l", "i", "a", "_", "m", "o", "n", "o", "p", "a", "r", "e", "n", "t", "a", "l">>)
    ELSE DeserializeBoolOrString(v)

\* numero_hijos: deserialize_with, no default: the derive reports a key that
\* is not there as a missing field, it does not call the visitor
FieldNumeroHijos(v) ==
    IF v.t = "absent" THEN Err(MissingField \o <<"n", "u", "m", "e", "r", "o", "_", "h", "i", "j", "o", "s">>)
    ELSE DeserializeF64OrString(v)

\* the derived Deserialize of a struct of these four fields; fields holds
\* what each field's deserializer gave, err the first failure in field order
DecodeFields(obj) ==
    LET p == FieldString(obj.parentesco, <<"p", "a", "r", "e", "n", "t", "e", "s", "c", "o">>)
        s == FieldString(obj.situacion, <<"s", "i", "t", "u", "a", "c", "i", "o", "n">>)
        f == FieldFamiliaMonoparental(obj.familia_monoparental)
        n == FieldNumeroHijos(obj.numero_hijos)
        fields == [parentesco |-> p, situacion |-> s,
                   familia_monoparental |-> f, numero_hijos |-> n]
    IN  IF p.ok /\ s.ok /\ f.ok /\ n.ok
        THEN [ok |-> TRUE, fields |-> fields,
              val |-> [parentesco |-> p.val, situacion |-> s.val,
                       familia_monoparental |-> f.val, numero_hijos |-> n.val]]
        ELSE [ok |-> FALSE, fields |-> fields,
              err |-> IF ~p.ok THEN p.err ELSE IF ~s.ok THEN s.err
                      ELSE IF ~f.ok THEN f.err ELSE n.err]

DecodeExcedenciaDirectParams(obj) == DecodeFields(obj)

DecodeExcedenciaInput(obj) == DecodeFields(obj)

\* Serialize of f64 into a serde_json::Value: a number, or null when not finite
SerializeF64(f) == IF IsFinite(f) THEN JF64(f) ELSE JNull

\* the derived Serialize of ExcedenciaInput: numero_hijos is skipped when None
SerializeExcedenciaInput(input) ==
    [parentesco |-> JStr(input.parentesco),
     situacion |-> JStr(input.situacion),
     familia_monoparental |-> JBool(input.familia_monoparental),
     numero_hijos |-> IF input.numero_hijos.some
                      THEN SerializeF64(input.numero_hijos.v) ELSE JAbsent]

\* the request shaper: the flat parameters moved into the nested request
ShapeRequest(direct_params) ==
    [input |-> [parentesco |-> direct_params.parentesco,
                situacion |-> direct_params.situacion,
                familia_monoparental |-> direct_params.familia_monoparental,
                numero_hijos |-> direct_params.numero_hijos]]

(***************************************************************************)
(* serde_json::from_str::<ValidationErrorDetails>: the JSON text is parsed *)
(* into a value and the value decoded as the derived Deserialize decodes   *)
(* it (a struct from an object or from a sequence of its fields in order,  *)
(* unknown keys skipped, a known key given twice refused, nothing but      *)
(* white space after the value).  \u escapes are not modelled: a text      *)
(* holding one fails to parse.                                             *)
(***************************************************************************)
SkipWs(s, i) == Min({j \in i..(Len(s) + 1) : j = Len(s) + 1 \/ s[j] \notin {" ", "\n", "\t", "\r"}})

Fail == [ok |-> FALSE]

Parsed(v, pos) == [ok |-> TRUE, val |-> v, pos |-> pos]

Unescape(c) ==
    CASE c = "n" -> "\n" [] c = "t" -> "\t" [] c = "r" -> "\r"
      [] c = "f" -> "\f" [] c = "b" -> "backspace" [] OTHER -> c

\* the content of a JSON string whose opening quote is just before i
RECURSIVE ScanString(_, _, _)
ScanString(s, i, acc) ==
    IF i > Len(s) THEN Fail
    ELSE IF s[i] = "\"" THEN Parsed(acc, i + 1)
    ELSE IF s[i] = "\\"
    THEN IF i + 1 <= Len(s) /\ s[i + 1] \in {"\"", "\\", "/", "b", "f", "n", "r", "t"}
         THEN ScanString(s, i + 2, Append(acc, Unescape(s[i + 1])))
         ELSE Fail
    ELSE IF s[i] \in {"\n", "\t", "\r", "\f", "backspace"} THEN Fail
    ELSE ScanString(s, i + 1, Append(acc, s[i]))

\* exponent of a JSON number, e is at position j - 1: the position after it, or 0
ScanExpDigits(s, j) ==
    IF j <= Len(s) /\ s[j] \in {"+", "-"}
    THEN (IF DigitsEnd(s, j + 1) > j + 1 THEN DigitsEnd(s, j + 1) ELSE 0)
    ELSE (IF DigitsEnd(s, j) > j THEN DigitsEnd(s, j) ELSE 0)

ScanExponent(s, j) ==
    IF j <= Len(s) /\ s[j] \in {"e", "E"} THEN ScanExpDigits(s, j + 1) ELSE j

\* fraction and exponent of a JSON number whose integer part ends before j
ScanFraction(s, j) ==
    IF j <= Len(s) /\ s[j] = "."
    THEN (IF DigitsEnd(s, j + 1) > j + 1 THEN ScanExponent(s, DigitsEnd(s, j + 1)) ELSE 0)
    ELSE ScanExponent(s, j)

\* integer part of a JSON number at i: 0 alone, or digits not starting with 0
ScanInteger(s, i) ==
    IF i > Len(s) \/ ~IsDigit(s[i]) THEN 0
    ELSE IF s[i] = "0"
    THEN (IF i + 1 <= Len(s) /\ IsDigit(s[i + 1]) THEN 0 ELSE ScanFraction(s, i + 1))
    ELSE ScanFraction(s, DigitsEnd(s, i))

\* a JSON number at i: the position after it, or 0
ScanNumber(s, i) == IF s[i] = "-" THEN ScanInteger(s, i + 1) ELSE ScanInteger(s, i)

AsString(r) == IF r.ok THEN Parsed([t |-> "str", s |-> r.val], r.pos) ELSE Fail

AsNumber(pos) == IF pos = 0 THEN Fail ELSE Parsed([t |-> "num"], pos)

RECURSIVE ParseValue(_, _)
RECURSIVE ParseElems(_, _, _)
RECURSIVE AfterElem(_, _, _)
RECURSIVE ElemSep(_, _, _)
RECURSIVE ParseMembers(_, _, _)
RECURSIVE AfterKey(_, _, _)
RECURSIVE Colon(_, _, _, _)
RECURSIVE AfterMember(_, _, _, _)
RECURSIVE MemberSep(_, _, _)

\* after an element: a comma and the next element, or the closing bracket
ElemSep(s, j, acc) ==
    IF j > Len(s) THEN Fail
    ELSE IF s[j] = "," THEN ParseElems(s, SkipWs(s, j + 1), acc)
    ELSE IF s[j] = "]" THEN Parsed([t |-> "arr", items |-> acc], j + 1)
    ELSE Fail

AfterElem(s, r, acc) ==
    IF r.ok THEN ElemSep(s, SkipWs(s, r.pos), Append(acc, r.val)) ELSE Fail

ParseElems(s, i, acc) == AfterElem(s, ParseValue(s, i), acc)

\* after a member: a comma and the next member, or the closing brace
MemberSep(s, j, acc) ==
    IF j > Len(s) THEN Fail
    ELSE IF s[j] = "," THEN ParseMembers(s, SkipWs(s, j + 1), acc)
    ELSE IF s[j] = "}" THEN Parsed([t |-> "obj", kv |-> acc], j + 1)
    ELSE Fail

AfterMember(s, key, r, acc) ==
    IF r.ok THEN MemberSep(s, SkipWs(s, r.pos), Append(acc, <<key, r.val>>)) ELSE Fail

Colon(s, key, j, acc) ==
    IF j > Len(s) \/ s[j] # ":" THEN Fail
    ELSE AfterMember(s, key, ParseValue(s, SkipWs(s, j + 1)), acc)

AfterKey(s, k, acc) == IF k.ok THEN Colon(s, k.val, SkipWs(s, k.pos), acc) ELSE Fail

ParseMembers(s, i, acc) ==
    IF i > Len(s) \/ s[i] # "\"" THEN Fail
    ELSE AfterKey(s, ScanString(s, i + 1, <<>>), acc)

\* the JSON value that starts at i (white space already skipped)
ParseValue(s, i) ==
    IF i > Len(s) THEN Fail
    ELSE IF s[i] = "\"" THEN AsString(ScanString(s, i + 1, <<>>))
    ELSE IF s[i] = "["
    THEN (IF SkipWs(s, i + 1) <= Len(s) /\ s[SkipWs(s, i + 1)] = "]"
          THEN Parsed([t |-> "arr", items |-> <<>>], SkipWs(s, i + 1) + 1)
          ELSE ParseElems(s, SkipWs(s, i + 1), <<>>))
    ELSE IF s[i] = "{"
    THEN (IF SkipWs(s, i + 1) <= Len(s) /\ s[SkipWs(s, i + 1)] = "}"
          THEN Parsed([t |-> "obj", kv |-> <<>>], SkipWs(s, i + 1) + 1)
          ELSE ParseMembers(s, SkipWs(s, i + 1), <<>>))
    ELSE IF MatchesAt(s, <<"t", "r", "u", "e">>, i) THEN Parsed([t |-> "bool"], i + 4)
    ELSE IF MatchesAt(s, <<"f", "a", "l", "s", "e">>, i) THEN Parsed([t |-> "bool"], i + 5)
    ELSE IF MatchesAt(s, <<"n", "u", "l", "l">>, i) THEN Parsed([t |-> "null"], i + 4)
    ELSE AsNumber(ScanNumber(s, i))

\* the value of a known key of an object: there once, or a failure
FieldOf(kv, key) ==
    IF Cardinality({i \in 1..Len(kv) : kv[i][1] = key}) = 1
    THEN Ok(kv[CHOOSE i \in 1..Len(kv) : kv[i][1] = key][2])
    ELSE Err(Nil)

DecodeString(r) == IF r.ok /\ r.val.t = "str" THEN Ok(r.val.s) ELSE Err(Nil)

MakeValidationError(m, p) ==
    IF m.ok /\ p.ok THEN Ok([message |-> m.val, path |-> p.val]) ELSE Err(Nil)

\* ValidationError { message: String, path: String }
DecodeValidationError(v) ==
    CASE v.t = "obj" ->
            MakeValidationError(DecodeString(FieldOf(v.kv, <<"m", "e", "s", "s", "a", "g", "e">>)),
                                DecodeString(FieldOf(v.kv, <<"p", "a", "t", "h">>)))
      [] v.t = "arr" /\ Len(v.items) = 2 ->
            MakeValidationError(DecodeString(Ok(v.items[1])), DecodeString(Ok(v.items[2])))
      [] OTHER -> Err(Nil)

\* Vec<ValidationError>
DecodeErrors(r) ==
    IF r.ok /\ r.val.t = "arr"
          /\ \A i \in 1..Len(r.val.items) : DecodeValidationError(r.val.items[i]).ok
    THEN Ok([i \in 1..Len(r.val.items) |-> DecodeValidationError(r.val.items[i]).val])
    ELSE Err(Nil)

\* ValidationErrorSource { errors: Vec<ValidationError> }
DecodeSource(r) ==
    IF ~r.ok THEN Err(Nil)
    ELSE CASE r.val.t = "obj" -> DecodeErrors(FieldOf(r.val.kv, <<"e", "r", "r", "o", "r", "s">>))
           [] r.val.t = "arr" /\ Len(r.val.items) = 1 -> DecodeErrors(Ok(r.val.items[1]))
           [] OTHER -> Err(Nil)

MakeDetails(src, ty) ==
    IF src.ok /\ ty.ok THEN Ok([source |-> [errors |-> src.val], error_type |-> ty.val])
    ELSE Err(Nil)

\* ValidationErrorDetails { source: ValidationErrorSource, type: String }
DecodeDetails(v) ==
    CASE v.t = "obj" ->
            MakeDetails(DecodeSource(FieldOf(v.kv, <<"s", "o", "u", "r", "c", "e">>)),
                        DecodeString(FieldOf(v.kv, <<"t", "y", "p", "e">>)))
      [] v.t = "arr" /\ Len(v.items) = 2 ->
            MakeDetails(DecodeSource(Ok(v.items[1])), DecodeString(Ok(v.items[2])))
      [] OTHER -> Err(Nil)

DecodeWhole(s, r) ==
    IF r.ok /\ SkipWs(s, r.pos) = Len(s) + 1 THEN DecodeDetails(r.val) ELSE Err(Nil)

\* serde_json::from_str::<ValidationErrorDetails>(s)
FromStrDetails(s) == DecodeWhole(s, ParseValue(s, SkipWs(s, 1)))

(***************************************************************************)
(* The error salvage extractor.                                            *)
(***************************************************************************)
StartPattern1 == <<"{", "\"", "s", "o", "u", "r", "c", "e", "\"", ":", "{", "\"", "e", "r", "r", "o", "r", "s", "\"", ":">>

EndValidation == <<"\"", "t", "y", "p", "e", "\"", ":", "\"", "V", "a", "l", "i", "d", "a", "t", "i", "o", "n", "\"", "}">>

patterns ==
    << <<StartPattern1, EndValidation>>,
       <<<<"{", "\"", "e", "r", "r", "o", "r", "s", "\"", ":">>, EndValidation>>,
       <<<<"\"", "e", "r", "r", "o", "r", "s", "\"", ":", "[">>, <<"]">>>> >>

IsNotOneOf == <<"i", "s", " ", "n", "o", "t", " ", "o", "n", "e", " ", "o", "f">>

MessageKey == <<"\"", "m", "e", "s", "s", "a", "g", "e", "\"", ":">>

MessageKeyQuote == <<"\"", "m", "e", "s", "s", "a", "g", "e", "\"", ":", "\"">>

PathKey == <<"\"", "p", "a", "t", "h", "\"", ":">>

PathKeyQuote == <<"\"", "p", "a", "t", "h", "\"", ":", "\"">>

Quote == <<"\"">>

Comma == <<",">>

UnknownPath == <<"/", "i", "n", "p", "u", "t", "/", "u", "n", "k", "n", "o", "w", "n">>

\* text.split(','), the pieces of s from position i on
RECURSIVE SplitFrom(_, _)
SplitFrom(s, i) ==
    IF FindFrom(s, Comma, i) = 0 THEN <<SubSeq(s, i, Len(s))>>
    ELSE <<SubSeq(s, i, FindFrom(s, Comma, i) - 1)>> \o SplitFrom(s, FindFrom(s, Comma, i) + 1)

Split(s) == SplitFrom(s, 1)

\* the quoted content that starts at from in line: up to the next quote; old if none
QuotedFrom(line, from, old) ==
    IF FindFrom(line, Quote, from) = 0 THEN old
    ELSE SubSeq(line, from, FindFrom(line, Quote, from) - 1)

\* one turn of the loop for one key: the value a fragment gives, else the old one
Quoted(line, key, keyQuote, old) ==
    IF Contains(line, key) /\ Find(line, keyQuote) # 0
    THEN QuotedFrom(line, Find(line, keyQuote) + Len(keyQuote), old)
    ELSE old

\* the loop over the fragments, from fragment k on
RECURSIVE ScanLines(_, _, _, _)
ScanLines(lines, k, message, path) ==
    IF k > Len(lines) THEN [message |-> message, path |-> path]
    ELSE ScanLines(lines, k + 1,
                   Quoted(lines[k], MessageKey, MessageKeyQuote, message),
                   Quoted(lines[k], PathKey, PathKeyQuote, path))

\* the end of manual_extract_errors without the default for an empty path
SynthesizeWithoutSentinel(found) ==
    IF found.message # <<>>
    THEN Some(<<[message |-> found.message, path |-> found.path]>>)
    ELSE None

\* the end of manual_extract_errors: an issue if a message was found
SynthesizeIssue(found) ==
    IF found.message # <<>>
    THEN Some(<<[message |-> found.message,
                 path |-> IF found.path = <<>> THEN UnknownPath ELSE found.path]>>)
    ELSE None

\* manual_extract_errors without the guard on the phrase
ManualExtractUnguarded(t) == SynthesizeIssue(ScanLines(Split(t), 1, <<>>, <<>>))

ManualExtractErrors(t) ==
    IF Contains(t, IsNotOneOf)
    THEN SynthesizeIssue(ScanLines(Split(t), 1, <<>>, <<>>))
    ELSE None

RECURSIVE TryPatterns(_, _)
RECURSIVE TryCandidate(_, _, _, _)
RECURSIVE TryDecoded(_, _, _)
RECURSIVE TryManual(_, _, _)

\* the body of the loop after both finds succeeded and decoding failed
TryManual(t, k, manual) == IF manual.some THEN manual ELSE TryPatterns(t, k + 1)

TryDecoded(t, k, details) ==
    IF details.ok THEN Some(details.val.source.errors)
    ELSE TryManual(t, k, ManualExtractErrors(t))

\* json_candidate = &text[start..end] ending before the end pattern
CandidateWithoutEnd(t, k, start, endAt) ==
    IF endAt = 0 THEN TryPatterns(t, k + 1)
    ELSE TryDecoded(t, k, FromStrDetails(SubSeq(t, start, endAt - 1)))

\* start is where the start pattern was found; endAt where the end pattern
\* was found after it (0: not found)
TryCandidate(t, k, start, endAt) ==
    IF endAt = 0 THEN TryPatterns(t, k + 1)
    ELSE TryDecoded(t, k, FromStrDetails(SubSeq(t, start, endAt + Len(patterns[k][2]) - 1)))

\* the loop over the marker pairs from pair k on, then the heuristic scan
TryPatterns(t, k) ==
    IF k > Len(patterns) THEN ManualExtractErrors(t)
    ELSE IF Find(t, patterns[k][1]) = 0 THEN TryPatterns(t, k + 1)
    ELSE TryCandidate(t, k, Find(t, patterns[k][1]),
                      FindFrom(t, patterns[k][2], Find(t, patterns[k][1]) + Len(patterns[k][1])))

ExtractJsonFromString(t) == TryPatterns(t, 1)

(***************************************************************************)
(* Specification of the decoders: the caller's arguments are decoded,      *)
(* shaped, serialized for the engine and decoded back as the input echo.   *)
(***************************************************************************)
RawBool ==
    {JBool(TRUE), JBool(FALSE), JNull, JAbsent, JU64(1)}
    \cup {JStr(s) : s \in {<<"t", "r", "u", "e">>, <<"T", "r", "u", "e">>, <<"T", "R", "U", "E">>, <<"t", "R", "u", "E">>, <<"f", "a", "l", "s", "e">>, <<"F", "a", "l", "s", "e">>, <<"F", "A", "L", "S", "E">>,
                           <<"m", "a", "y", "b", "e">>, <<>>, <<"y", "e", "s">>, <<"t", "r", "u", "e", "e">>, <<"t", "r", "u">>, <<" ", "t", "r", "u", "e">>}}

\* the decimal spelling of a one-digit number
Spelling(n) == <<Digits[n + 1]>>

RawNumber ==
    {JNull, JAbsent, JBool(TRUE), JArray, JI64(0 - 1),
     JF64(Normalize(5, 1)), JF64(Normalize(25, 1))}
    \cup {JU64(n) : n \in 0..MaxInt}
    \cup {JF64(IntAsF64(n)) : n \in 0..MaxInt}
    \cup {JStr(Spelling(n)) : n \in 0..MaxInt}
    \cup {JStr(Spelling(n) \o <<".", "0">>) : n \in 0..MaxInt}
    \cup {JStr(s) : s \in {<<"3", ".">>, <<"0", "3">>, <<"+", "3">>, <<"-", "1">>, <<"2", ".", "5">>, <<".", "5">>, <<"1", "e", "1">>, <<"3", "0", "e", "-", "1">>, <<"a", "b", "c">>, <<>>,
                           <<" ", "3">>, <<"3", " ">>, <<"3", "x">>, <<".">>, <<"e", "1">>, <<"1", "e">>, <<"N", "a", "N">>, <<"i", "n", "f">>, <<"-", "I", "n", "f", "i", "n", "i", "t", "y">>,
                           <<"n", "u", "l", "l">>}}

RawArgs ==
    [parentesco : {JStr(<<"m", "a", "d", "r", "e">>), JStr(<<"h", "e", "r", "m", "a", "n", "o">>)},
     situacion : {JStr(<<"p", "a", "r", "t", "o">>), JStr(<<"e", "n", "f", "e", "r", "m", "e", "d", "a", "d">>)},
     familia_monoparental : RawBool, numero_hijos : RawNumber]

InitDecode ==
    /\ pc = "raw"
    /\ calls = Nil
    /\ raw \in RawArgs
    /\ decoded = Nil /\ wire = Nil /\ echo = Nil
    /\ parts = Nil /\ text = Nil /\ extracted = Nil
    /\ engine = Nil /\ params = Nil /\ request = Nil /\ joined = Nil /\ result = Nil

\* serde decodes the tool arguments into ExcedenciaDirectParams
DecodeParams ==
    /\ pc = "raw"
    /\ decoded' = DecodeExcedenciaDirectParams(raw)
    /\ pc' = "decoded"
    /\ UNCHANGED <<calls, raw, wire, echo, parts, text, extracted, engine, params, request, joined, result>>

\* the request is shaped and its input serialized (serde_json::to_value)
SerializeRequest ==
    /\ pc = "decoded"
    /\ decoded.ok
    /\ wire' = SerializeExcedenciaInput(ShapeRequest(decoded.val).input)
    /\ pc' = "serialized"
    /\ UNCHANGED <<calls, raw, decoded, echo, parts, text, extracted, engine, params, request, joined, result>>

\* the serialized input is decoded as the input echo of ExcedenciaResponse
DecodeEcho ==
    /\ pc = "serialized"
    /\ echo' = DecodeExcedenciaInput(wire)
    /\ pc' = "echoed"
    /\ UNCHANGED <<calls, raw, decoded, wire, parts, text, extracted, engine, params, request, joined, result>>

NextDecode == DecodeParams \/ SerializeRequest \/ DecodeEcho

SpecDecode == InitDecode /\ [][NextDecode]_vars

(***************************************************************************)
(* Specification of the salvage extractor: a diagnostic text is put        *)
(* together from a prefix, a body and a suffix, and extracted.             *)
(***************************************************************************)
\* a JSON string's spelling of s: quotes and backslashes escaped
RECURSIVE JsonEscapeFrom(_, _)
JsonEscapeFrom(s, i) ==
    IF i > Len(s) THEN <<>>
    ELSE (IF s[i] \in {"\"", "\\"} THEN <<"\\", s[i]>> ELSE <<s[i]>>) \o JsonEscapeFrom(s, i + 1)

JsonEscape(s) == JsonEscapeFrom(s, 1)

IssueJson(issue) ==
    <<"{", "\"", "m", "e", "s", "s", "a", "g", "e", "\"", ":", "\"">> \o JsonEscape(issue.message) \o <<"\"", ",", "\"", "p", "a", "t", "h", "\"", ":", "\"">> \o JsonEscape(issue.path) \o <<"\"", "}">>

RECURSIVE IssuesJsonFrom(_, _)
IssuesJsonFrom(issues, k) ==
    IF k > Len(issues) THEN <<>>
    ELSE (IF k > 1 THEN Comma ELSE <<>>) \o IssueJson(issues[k]) \o IssuesJsonFrom(issues, k + 1)

\* the envelope the engine writes for a list of validation issues
EnvelopeOf(issues) ==
    <<"{", "\"", "s", "o", "u", "r", "c", "e", "\"", ":", "{", "\"", "e", "r", "r", "o", "r", "s", "\"", ":", "[">> \o IssuesJsonFrom(issues, 1) \o <<"]", "}", ",", "\"", "t", "y", "p", "e", "\"", ":", "\"", "V", "a", "l", "i", "d", "a", "t", "i", "o", "n", "\"", "}">>

Issues ==
    {[message |-> <<"m">>, path |-> <<"p">>],
     [message |-> <<"\"", "x", "\"", " ", "i", "s", " ", "n", "o", "t", " ", "o", "n", "e", " ", "o", "f", " ", "[", "\"", "a", "\"", ",", "\"", "b", "\"", "]">>, path |-> <<"/", "i", "n", "p", "u", "t", "/", "p", "a", "r", "e", "n", "t", "e", "s", "c", "o">>]}

IssueLists == UNION {[1..n -> Issues] : n \in 1..MaxIssues}

\* the message fragment the heuristic scan looks for, as the engine writes it plainly
MessageFragment(m) == MessageKeyQuote \o m \o Quote

Bodies ==
    {[kind |-> "envelope", issues |-> l] : l \in IssueLists}
    \cup {[kind |-> "message", message |-> m] :
             m \in {<<"X", " ", "i", "s", " ", "n", "o", "t", " ", "o", "n", "e", " ", "o", "f", " ", "[", "a", "]">>, <<"X", " ", "i", "s", " ", "n", "o", "t", " ", "o", "n", "e", " ", "o", "f", " ", "[", "a", ",", "b", "]">>, <<"b", "o", "o", "m">>, <<>>}}
    \cup {[kind |-> "other", body |-> b] :
             b \in {<<"t", "i", "m", "e", "o", "u", "t">>,
                    <<"\"", "m", "e", "s", "s", "a", "g", "e", "\"", ":", "\"", "X", " ", "i", "s", " ", "n", "o", "t", " ", "o", "n", "e", " ", "o", "f", " ", "[", "a", "]", "\"", ",", "\"", "p", "a", "t", "h", "\"", ":", "\"", "/", "i", "n", "p", "u", "t", "/", "x", "\"">>,
                    <<"\"", "p", "a", "t", "h", "\"", ":", "\"", "/", "i", "n", "p", "u", "t", "/", "y", "\"", ",", "\"", "m", "e", "s", "s", "a", "g", "e", "\"", ":", "\"", "Y", " ", "i", "s", " ", "n", "o", "t", " ", "o", "n", "e", " ", "o", "f", " ", "[", "b", "]", "\"">>,
                    <<"\"", "m", "e", "s", "s", "a", "g", "e", "\"", ":", "\"", "f", "i", "r", "s", "t", " ", "i", "s", " ", "n", "o", "t", " ", "o", "n", "e", " ", "o", "f", " ", "[", "a", "]", "\"", ",", "\"", "m", "e", "s", "s", "a", "g", "e", "\"", ":", "\"", "s", "e", "c", "o", "n", "d", "\"">>,
                    <<"\"", "m", "e", "s", "s", "a", "g", "e", "\"", ":", "\"", "Z", " ", "i", "s", " ", "n", "o", "t", " ", "o", "n", "e", " ", "o", "f", " ", "[", "c", "]", "\"", ",", "\"", "p", "a", "t", "h", "\"", ":", "\"", "\"">>,
                    <<"{", "\"", "e", "r", "r", "o", "r", "s", "\"", ":", "[", "]", ",", "\"", "s", "o", "u", "r", "c", "e", "\"", ":", "{", "\"", "e", "r", "r", "o", "r", "s", "\"", ":", "[", "{", "\"", "m", "e", "s", "s", "a", "g", "e", "\"", ":", "\"", "m", "2", "\"", ",", "\"", "p", "a", "t", "h", "\"", ":", "\"", "p", "2", "\"", "}", "]", "}", ",", "\"", "t", "y", "p", "e", "\"", ":", "\"", "V", "a", "l", "i", "d", "a", "t", "i", "o", "n", "\"", "}">>,
                    <<"{", "\"", "e", "r", "r", "o", "r", "s", "\"", ":", "[", "]", ",", "\"", "s", "o", "u", "r", "c", "e", "\"", ":", "{", "\"", "e", "r", "r", "o", "r", "s", "\"", ":", "[", "{", "\"", "m", "e", "s", "s", "a", "g", "e", "\"", ":", "\"", "m", "2", "\"", ",", "\"", "p", "a", "t", "h", "\"", ":", "\"", "p", "2", "\"", "}", ",", "{", "\"", "m", "e", "s", "s", "a", "g", "e", "\"", ":", "\"", "m", "3", "\"", ",", "\"", "p", "a", "t", "h", "\"", ":", "\"", "p", "3", "\"", "}", "]", "}", ",", "\"", "t", "y", "p", "e", "\"", ":", "\"", "V", "a", "l", "i", "d", "a", "t", "i", "o", "n", "\"", "}">>,
                    <<"{", "\"", "s", "o", "u", "r", "c", "e", "\"", ":", "{", "\"", "e", "r", "r", "o", "r", "s", "\"", ":", "[", "{", "\"", "m", "e", "s", "s", "a", "g", "e", "\"", ":", "\"", "n", "o", " ", "t", "y", "p", "e", "\"", ",", "\"", "p", "a", "t", "h", "\"", ":", "\"", "p", "\"", "}", "]", "}", "}">>}}

BodyText(b) ==
    CASE b.kind = "envelope" -> EnvelopeOf(b.issues)
      [] b.kind = "message" -> MessageFragment(b.message)
      [] OTHER -> b.body

Compose(p) == p.pre \o BodyText(p.body) \o p.suf

InitSalvage ==
    /\ pc = "text"
    /\ calls = Nil
    /\ parts \in [pre : {<<>>, <<"E", "r", "r", "o", "r", ":", " ">>, <<"n", "o", "d", "e", " ", "\"", "n", "1", "\"", " ", "f", "a", "i", "l", "e", "d", ",", " ", "c", "a", "u", "s", "e", ":", " ">>, <<"i", "s", " ", "n", "o", "t", " ", "o", "n", "e", " ", "o", "f", " ">>,
                       <<"\"", "t", "y", "p", "e", "\"", ":", "\"", "V", "a", "l", "i", "d", "a", "t", "i", "o", "n", "\"", "}", " ">>, <<"\"", "e", "r", "r", "o", "r", "s", "\"", ":", "[", " ", "x", " ", "]", " ">>, <<"{", "\"", "s", "o", "u", "r", "c", "e", "\"", ":", "{", "\"", "e", "r", "r", "o", "r", "s", "\"", ":", "[", " ">>,
                       <<"\"", "m", "e", "s", "s", "a", "g", "e", "\"", ":", "\"", "e", "a", "r", "l", "y", "\"", ",", " ">>},
                body : Bodies,
                suf : {<<>>, <<" ", "a", "t", " ", "n", "o", "d", "e", " ", "3">>, <<",", "\"", "t", "y", "p", "e", "\"", ":", "\"", "V", "a", "l", "i", "d", "a", "t", "i", "o", "n", "\"", "}">>, <<",", " ", "\"", "p", "a", "t", "h", "\"", ":", "\"", "/", "l", "a", "t", "e", "\"">>,
                       <<" ", "i", "s", " ", "n", "o", "t", " ", "o", "n", "e", " ", "o", "f", " ">>, <<" ", "{", "\"", "s", "o", "u", "r", "c", "e", "\"", ":", "{", "\"", "e", "r", "r", "o", "r", "s", "\"", ":", "[", "]", "}", ",", "\"", "t", "y", "p", "e", "\"", ":", "\"", "V", "a", "l", "i", "d", "a", "t", "i", "o", "n", "\"", "}">>,
                       <<" ", "{", "\"", "s", "o", "u", "r", "c", "e", "\"", ":", "{", "\"", "e", "r", "r", "o", "r", "s", "\"", ":", " ", "i", "s", " ", "n", "o", "t", " ", "o", "n", "e", " ", "o", "f", " ", "\"", "t", "y", "p", "e", "\"", ":", "\"", "V", "a", "l", "i", "d", "a", "t", "i", "o", "n", "\"", "}">>}]
    /\ text = Compose(parts)
    /\ extracted = Nil
    /\ raw = Nil /\ decoded = Nil /\ wire = Nil /\ echo = Nil
    /\ engine = Nil /\ params = Nil /\ request = Nil /\ joined = Nil /\ result = Nil

\* extract_json_from_string is applied to the text
ExtractJson ==
    /\ pc = "text"
    /\ extracted' = ExtractJsonFromString(text)
    /\ pc' = "extracted"
    /\ UNCHANGED <<calls, raw, decoded, wire, echo, parts, text, engine, params, request, joined, result>>

NextSalvage == ExtractJson

SpecSalvage == InitSalvage /\ [][NextSalvage]_vars

\* manual_extract_errors is applied to the text
ManualExtract ==
    /\ pc = "text"
    /\ extracted' = ManualExtractErrors(text)
    /\ pc' = "scanned"
    /\ UNCHANGED <<calls, raw, decoded, wire, echo, parts, text, engine, params, request, joined, result>>

NextManual == ManualExtract

SpecManual == InitSalvage /\ [][NextManual]_vars

(***************************************************************************)
(* The response reshaper: the engine's result value is decoded as          *)
(* ExcedenciaResponse, its output taken through ExcedenciaOutput and back. *)
(***************************************************************************)
JStrings(items) == [t |-> "strings", items |-> items]

JObject(fields) == [t |-> "object", fields |-> fields]

\* a String field with #[serde(default)]
FieldStringDefault(v) ==
    CASE v.t = "absent" -> Ok(<<>>)
      [] v.t = "str" -> Ok(v.s)
      [] OTHER -> Err(InvalidType \o <<"a", " ", "s", "t", "r", "i", "n", "g">>)

\* an i32 field
FieldI32(v, name) ==
    CASE v.t = "absent" -> Err(MissingField \o name)
      [] v.t \in {"u64", "i64"} /\ v.n >= 0 - 2147483647 - 1 /\ v.n <= 2147483647 -> Ok(v.n)
      [] OTHER -> Err(InvalidType \o <<"i", "3", "2">>)

\* a bool field
FieldBool(v, name) ==
    CASE v.t = "absent" -> Err(MissingField \o name)
      [] v.t = "bool" -> Ok(v.b)
      [] OTHER -> Err(InvalidType \o <<"a", " ", "b", "o", "o", "l", "e", "a", "n">>)

\* a Vec<String> field with #[serde(default)]
FieldStringsDefault(v) ==
    CASE v.t = "absent" -> Ok(<<>>)
      [] v.t = "strings" -> Ok(v.items)
      [] OTHER -> Err(InvalidType \o <<"a", " ", "s", "e", "q", "u", "e", "n", "c", "e">>)

FirstError(rs) == rs[Min({i \in 1..Len(rs) : ~rs[i].ok})].err

OutputOf(d, i, r, s, t, e, a) ==
    IF d.ok /\ i.ok /\ r.ok /\ s.ok /\ t.ok /\ e.ok /\ a.ok
    THEN Ok([descripcion |-> d.val, importe_mensual |-> i.val,
             requisitos_adicionales |-> r.val, supuesto |-> s.val,
             tiene_derecho_potencial |-> t.val, errores |-> e.val,
             advertencias |-> a.val])
    ELSE Err(FirstError(<<d, i, r, s, t, e, a>>))

\* the derived Deserialize of ExcedenciaOutputForSchema and of ExcedenciaOutput
DecodeOutput(v) ==
    CASE v.t = "absent" -> Err(MissingField \o <<"o", "u", "t", "p", "u", "t">>)
      [] v.t = "object" ->
            OutputOf(FieldString(v.fields.descripcion, <<"d", "e", "s", "c", "r", "i", "p", "c", "i", "o", "n">>),
                     FieldI32(v.fields.importe_mensual, <<"i", "m", "p", "o", "r", "t", "e", "_", "m", "e", "n", "s", "u", "a", "l">>),
                     FieldStringDefault(v.fields.requisitos_adicionales),
                     FieldString(v.fields.supuesto, <<"s", "u", "p", "u", "e", "s", "t", "o">>),
                     FieldBool(v.fields.tiene_derecho_potencial, <<"t", "i", "e", "n", "e", "_", "d", "e", "r", "e", "c", "h", "o", "_", "p", "o", "t", "e", "n", "c", "i", "a", "l">>),
                     FieldStringsDefault(v.fields.errores),
                     FieldStringsDefault(v.fields.advertencias))
      [] OTHER -> Err(InvalidType \o <<"s", "t", "r", "u", "c", "t", " ", "E", "x", "c", "e", "d", "e", "n", "c", "i", "a", "O", "u", "t", "p", "u", "t", "F", "o", "r", "S", "c", "h", "e", "m", "a">>)

\* serde_json::to_value(&response.output): every field is written
SerializeOutput(o) ==
    JObject([descripcion |-> JStr(o.descripcion),
             importe_mensual |-> JI64(o.importe_mensual),
             requisitos_adicionales |-> JStr(o.requisitos_adicionales),
             supuesto |-> JStr(o.supuesto),
             tiene_derecho_potencial |-> JBool(o.tiene_derecho_potencial),
             errores |-> JStrings(o.errores),
             advertencias |-> JStrings(o.advertencias)])

\* input: Option<ExcedenciaInput> with #[serde(default)]
DecodeInputEcho(v) ==
    CASE v.t \in {"absent", "null"} -> Ok(None)
      [] v.t = "object" ->
            IF DecodeExcedenciaInput(v.fields).ok
            THEN Ok(Some(DecodeExcedenciaInput(v.fields).val))
            ELSE Err(DecodeExcedenciaInput(v.fields).err)
      [] OTHER -> Err(InvalidType \o <<"s", "t", "r", "u", "c", "t", " ", "E", "x", "c", "e", "d", "e", "n", "c", "i", "a", "I", "n", "p", "u", "t">>)

\* parentesco_valido: Option<bool> with #[serde(default)]
DecodeOptionBool(v) ==
    CASE v.t \in {"absent", "null"} -> Ok(None)
      [] v.t = "bool" -> Ok(Some(v.b))
      [] OTHER -> Err(InvalidType \o <<"a", " ", "b", "o", "o", "l", "e", "a", "n">>)

ResponseOf(o, i, p) ==
    IF o.ok /\ i.ok /\ p.ok
    THEN Ok([output |-> o.val, input |-> i.val, parentesco_valido |-> p.val])
    ELSE Err(FirstError(<<o, i, p>>))

\* serde_json::from_value::<ExcedenciaResponse>(result_value)
DecodeResponse(v) ==
    ResponseOf(DecodeOutput(v.output), DecodeInputEcho(v.input),
               DecodeOptionBool(v.parentesco_valido))

SerializationError(e) == [variant |-> "SerializationError", detail |-> e]

ZenEngineError(e) == [variant |-> "ZenEngineError", source |-> e]

ValidationErrorOf(errors) == [variant |-> "ValidationError", errors |-> errors]

\* response.output replaced by the fields of internal_output
WithOutput(response, internal) ==
    IF internal.ok THEN Ok([response EXCEPT !.output = internal.val])
    ELSE Err(SerializationError(internal.err))

\* the Ok arm of evaluate_excedencia
Reshape(decodedResponse) ==
    IF decodedResponse.ok
    THEN WithOutput(decodedResponse.val,
                    DecodeOutput(SerializeOutput(decodedResponse.val.output)))
    ELSE Err(SerializationError(decodedResponse.err))

(***************************************************************************)
(* The evaluation orchestrator.                                            *)
(***************************************************************************)
ExtractFromNodeError(source_str) == ExtractJsonFromString(source_str)

ExtractFromErrorString(error_str) == ExtractJsonFromString(error_str)

\* zen_error.source is the Debug text of a node error's cause, zen_error.debug
\* the Debug text of the whole error
ExtractValidationErrors(zen_error) ==
    IF zen_error.kind = "NodeError" /\ ExtractFromNodeError(zen_error.source).some
    THEN ExtractFromNodeError(zen_error.source)
    ELSE ExtractFromErrorString(zen_error.debug)

\* the Err arm of evaluate_excedencia
Classify(zen_error, validation_errors) ==
    IF validation_errors.some THEN Err(ValidationErrorOf(validation_errors.v))
    ELSE Err(ZenEngineError(zen_error))

\* evaluate_excedencia: ruleset is what decoding the bundled ruleset gave,
\* outcome what decision.evaluate returned
EvaluateExcedencia(ruleset, outcome) ==
    IF ~ruleset.ok THEN Err(SerializationError(ruleset.err))
    ELSE IF outcome.ok THEN Reshape(DecodeResponse(outcome.val))
    ELSE Classify(outcome.err, ExtractValidationErrors(outcome.err))

(***************************************************************************)
(* The tool operation.                                                     *)
(***************************************************************************)
ValidationHeader == <<"E", "r", "r", "o", "r", "e", "s", " ", "d", "e", " ", "v", "a", "l", "i", "d", "a", "c", "i", "o-acute", "n", ":", "\n">>

ErrorAlEvaluar == <<"E", "r", "r", "o", "r", " ", "a", "l", " ", "e", "v", "a", "l", "u", "a", "r", ":", " ">>

ErrorInterno == <<"E", "r", "r", "o", "r", " ", "i", "n", "t", "e", "r", "n", "o", ":", " ">>

ErrorAlSerializar == <<"E", "r", "r", "o", "r", " ", "a", "l", " ", "s", "e", "r", "i", "a", "l", "i", "z", "a", "r", " ", "l", "a", " ", "r", "e", "s", "p", "u", "e", "s", "t", "a", ":", " ">>

\* Display of ExcedenciaError
Display(e) ==
    CASE e.variant = "ZenEngineError" -> <<"E", "r", "r", "o", "r", " ", "d", "e", "l", " ", "m", "o", "t", "o", "r", " ", "d", "e", " ", "d", "e", "c", "i", "s", "i", "o-acute", "n", ":", " ">> \o e.source.display
      [] e.variant = "SerializationError" -> <<"E", "r", "r", "o", "r", " ", "d", "e", " ", "s", "e", "r", "i", "a", "l", "i", "z", "a", "c", "i", "o-acute", "n", ":", " ">> \o e.detail
      [] OTHER -> ValidationHeader

\* the loop over validation_errors with msg = format!(..) instead of push_str
RECURSIVE ValidationReportOverwriting(_, _, _)
ValidationReportOverwriting(errors, k, msg) ==
    IF k > Len(errors) THEN msg
    ELSE ValidationReportOverwriting(errors, k + 1,
             <<" ", " ", "-", " ", "C", "a", "m", "p", "o", " ", "'">> \o errors[k].path \o <<"'", ":", " ">> \o errors[k].message \o <<"\n">>)

\* the loop over validation_errors from issue k on, msg what was pushed so far
RECURSIVE ValidationReport(_, _, _)
ValidationReport(errors, k, msg) ==
    IF k > Len(errors) THEN msg
    ELSE ValidationReport(errors, k + 1,
             msg \o <<" ", " ", "-", " ", "C", "a", "m", "p", "o", " ", "'">> \o errors[k].path \o <<"'", ":", " ">> \o errors[k].message \o <<"\n">>)

ErrorMsg(e) ==
    IF e.variant = "ValidationError" THEN ValidationReport(e.errors, 1, ValidationHeader)
    ELSE ErrorAlEvaluar \o Display(e)

TextContent(chars) == [type |-> "text", text |-> chars]

\* Content::text of serde_json::to_string_pretty(&response)
JsonContent(response) == [type |-> "text", json |-> response]

Success(content) == [rust |-> "Ok", is_error |-> FALSE, content |-> <<content>>]

ToolError(content) == [rust |-> "Ok", is_error |-> TRUE, content |-> <<content>>]

\* to_string_pretty of an ExcedenciaResponse: its keys are strings and a number
\* that is not finite is written as null, so it does not fail
ToStringPretty(response) == Ok(response)

\* the match on result with the join error handed on as a protocol error
ToolResultPropagating(res) ==
    IF res.ok
    THEN IF res.val.ok
         THEN Success(JsonContent(res.val.val))
         ELSE ToolError(TextContent(ErrorMsg(res.val.err)))
    ELSE [rust |-> "Err", error |-> res.err.display]

\* the match on result with the join error reported as an evaluation failure
ToolResultConflating(res) ==
    IF res.ok
    THEN IF res.val.ok
         THEN Success(JsonContent(res.val.val))
         ELSE ToolError(TextContent(ErrorMsg(res.val.err)))
    ELSE ToolError(TextContent(ErrorAlEvaluar \o res.err.display))

\* the match on result at the end of evaluar_supuesto_excedencia
ToolResult(res) ==
    IF res.ok
    THEN IF res.val.ok
         THEN IF ToStringPretty(res.val.val).ok
              THEN Success(JsonContent(ToStringPretty(res.val.val).val))
              ELSE ToolError(TextContent(ErrorAlSerializar))
         ELSE ToolError(TextContent(ErrorMsg(res.val.err)))
    ELSE ToolError(TextContent(ErrorInterno \o res.err.display))

(***************************************************************************)
(* One call of the tool operation: what the engine and the runtime may do. *)
(***************************************************************************)
DirectParams ==
    [parentesco : {<<"m", "a", "d", "r", "e">>, <<"h", "e", "r", "m", "a", "n", "o">>}, situacion : {<<"p", "a", "r", "t", "o">>},
     familia_monoparental : BOOLEAN, numero_hijos : {None, Some(IntAsF64(MaxInt))}]

OutputFull ==
    JObject([descripcion |-> JStr(<<"S", "u", "p", "u", "e", "s", "t", "o", " ", "E">>), importe_mensual |-> JU64(500),
             requisitos_adicionales |-> JStr(<<"n", "i", "n", "g", "u", "n", "o">>), supuesto |-> JStr(<<"E">>),
             tiene_derecho_potencial |-> JBool(TRUE), errores |-> JStrings(<<>>),
             advertencias |-> JStrings(<<<<"a", "v", "i", "s", "o">>>>)])

\* the result values the engine may return for a request: an output, and the
\* request's input handed back, as null, or not at all
EngineResults(req) ==
    [output : {OutputFull,
               JObject([descripcion |-> JStr(<<>>), importe_mensual |-> JU64(0),
                        requisitos_adicionales |-> JAbsent, supuesto |-> JStr(<<>>),
                        tiene_derecho_potencial |-> JBool(FALSE), errores |-> JAbsent,
                        advertencias |-> JAbsent]),
               JObject([descripcion |-> JAbsent, importe_mensual |-> JU64(0),
                        requisitos_adicionales |-> JAbsent, supuesto |-> JStr(<<>>),
                        tiene_derecho_potencial |-> JBool(FALSE), errores |-> JAbsent,
                        advertencias |-> JAbsent]),
               JAbsent},
     input : {JAbsent, JNull, JObject(SerializeExcedenciaInput(req.input))},
     parentesco_valido : {JAbsent, JBool(TRUE)}]

\* the diagnostic texts of the engine's errors
EngineTexts ==
    {<<"t", "i", "m", "e", "o", "u", "t">>, <<"\"", "m", "e", "s", "s", "a", "g", "e", "\"", ":", "\"", "b", "o", "o", "m", "\"">>, <<"{", "\"", "s", "o", "u", "r", "c", "e", "\"", ":", "{", "\"", "e", "r", "r", "o", "r", "s", "\"", ":", "[", " ", "c", "u", "t">>,
     MessageFragment(<<"X", " ", "i", "s", " ", "n", "o", "t", " ", "o", "n", "e", " ", "o", "f", " ", "[", "a", "]">>)}
    \cup {EnvelopeOf(l) : l \in IssueLists}

\* node errors whose cause has the Debug text s: the Debug text of the whole
\* error may or may not show the cause
NodeErrorsOf(s) ==
    {[kind |-> "NodeError", source |-> s, debug |-> d, display |-> <<"n", "o", "d", "e", " ", "f", "a", "i", "l", "e", "d">>] :
        d \in {<<"N", "o", "d", "e", "E", "r", "r", "o", "r">>, <<"N", "o", "d", "e", "E", "r", "r", "o", "r", " ", "{", " ", "s", "o", "u", "r", "c", "e", ":", " ">> \o s \o <<" ", "}">>}}

ZenErrors ==
    UNION {NodeErrorsOf(s) : s \in EngineTexts}
    \cup {[kind |-> "Other", source |-> <<>>, debug |-> d, display |-> <<"e", "n", "g", "i", "n", "e", " ", "f", "a", "i", "l", "e", "d">>] :
        d \in EngineTexts}

EngineOutcomes(req) ==
    {Ok(v) : v \in EngineResults(req)} \cup {Err(e) : e \in ZenErrors}

\* decoding the bundled ruleset
RulesetLoads == {Ok(Nil), Err(<<"r", "u", "l", "e", "s", "e", "t", ":", " ", "e", "x", "p", "e", "c", "t", "e", "d", " ", "v", "a", "l", "u", "e">>)}

\* the JoinError of a task that panicked or was cancelled
JoinErrors ==
    {[display |-> <<"t", "a", "s", "k", " ", "1", " ", "p", "a", "n", "i", "c", "k", "e", "d">>], [display |-> <<"t", "a", "s", "k", " ", "1", " ", "w", "a", "s", " ", "c", "a", "n", "c", "e", "l", "l", "e", "d">>]}

Init ==
    /\ pc = "idle"
    /\ calls = Nil
    /\ params \in DirectParams
    /\ request = Nil /\ engine = Nil /\ joined = Nil /\ result = Nil
    /\ raw = Nil /\ decoded = Nil /\ wire = Nil /\ echo = Nil
    /\ parts = Nil /\ text = Nil /\ extracted = Nil

\* the request is shaped and moved into a blocking task
Call ==
    /\ pc = "idle"
    /\ request' = ShapeRequest(params)
    /\ pc' = "spawned"
    /\ UNCHANGED <<calls, raw, decoded, wire, echo, parts, text, extracted, engine, params, joined, result>>

\* the task runs evaluate_excedencia to its end and is joined
TaskCompletes ==
    /\ pc = "spawned"
    /\ \E ruleset \in RulesetLoads, outcome \in EngineOutcomes(request) :
          /\ engine' = [ruleset |-> ruleset, outcome |-> outcome]
          /\ joined' = Ok(EvaluateExcedencia(ruleset, outcome))
    /\ pc' = "joined"
    /\ UNCHANGED <<calls, raw, decoded, wire, echo, parts, text, extracted, params, request, result>>

\* the task panics (Runtime::new().unwrap(), or inside the evaluation) or is
\* cancelled: awaiting the handle gives a JoinError
TaskAborts ==
    /\ pc = "spawned"
    /\ \E e \in JoinErrors : joined' = Err(e)
    /\ pc' = "joined"
    /\ UNCHANGED <<calls, raw, decoded, wire, echo, parts, text, extracted, engine, params, request, result>>

\* the match on the joined result builds what the operation returns
Return ==
    /\ pc = "joined"
    /\ result' = ToolResult(joined)
    /\ pc' = "returned"
    /\ UNCHANGED <<calls, raw, decoded, wire, echo, parts, text, extracted, engine, params, request, joined>>

Next == Call \/ TaskCompletes \/ TaskAborts \/ Return

Spec == Init /\ [][Next]_vars

(***************************************************************************)
(* Calls of the tool operation running interleaved: each call has its own  *)
(* request, blocking task, runtime, engine and result.                     *)
(***************************************************************************)
Calls == 1..MaxCalls

\* what the engine may return to one of the interleaved calls
ConcurrentOutcomes(req) ==
    {o \in EngineOutcomes(req) :
        \/ o.ok /\ o.val.output = OutputFull /\ o.val.parentesco_valido = JAbsent
                /\ o.val.input # JNull
        \/ ~o.ok /\ o.err.kind = "Other"
                 /\ o.err.debug \in {<<"t", "i", "m", "e", "o", "u", "t">>, EnvelopeOf(<<[message |-> <<"m">>, path |-> <<"p">>]>>)}}

\* a task reading the request of the first call in flight instead of its own
SharedRequest(cs, c) == cs[Min({d \in DOMAIN cs : cs[d].pc # "idle"})].request

\* the request moved into the closure of call c
MovedRequest(cs, c) == cs[c].request

InitConcurrent ==
    /\ calls \in [Calls -> {[pc |-> "idle", params |-> p, request |-> Nil, engine |-> Nil,
                            joined |-> Nil, result |-> Nil, evaluations |-> 0] :
                               p \in {q \in DirectParams :
                                        ~q.familia_monoparental /\ q.numero_hijos.some}}]
    /\ pc = Nil /\ params = Nil /\ request = Nil /\ engine = Nil /\ joined = Nil
    /\ result = Nil /\ raw = Nil /\ decoded = Nil /\ wire = Nil /\ echo = Nil
    /\ parts = Nil /\ text = Nil /\ extracted = Nil

\* call c shapes its request and hands the closure to the blocking pool
Invoke(c) ==
    /\ calls[c].pc = "idle"
    /\ calls' = [calls EXCEPT ![c].request = ShapeRequest(calls[c].params),
                              ![c].pc = "spawned"]
    /\ UNCHANGED <<pc, raw, decoded, wire, echo, parts, text, extracted, engine, params, request, joined, result>>

\* the closure of call c starts on a blocking thread: its own runtime and engine
TaskStarts(c) ==
    /\ calls[c].pc = "spawned"
    /\ calls' = [calls EXCEPT ![c].pc = "running"]
    /\ UNCHANGED <<pc, raw, decoded, wire, echo, parts, text, extracted, engine, params, request, joined, result>>

\* the task of call c is cancelled before it starts or panics at
\* Runtime::new().unwrap(), with no evaluation run, or panics once running,
\* before or inside decision.evaluate
TaskFails(c) ==
    /\ calls[c].pc \in {"spawned", "running"}
    /\ \E e \in JoinErrors, n \in {0, 1} :
          /\ calls[c].pc = "spawned" => n = 0
          /\ calls[c].pc = "running" => e.display = <<"t", "a", "s", "k", " ", "1", " ", "p", "a", "n", "i", "c", "k", "e", "d">>
          /\ calls' = [calls EXCEPT ![c].joined = Err(e),
                                    ![c].evaluations = calls[c].evaluations + n,
                                    ![c].pc = "joined"]
    /\ UNCHANGED <<pc, raw, decoded, wire, echo, parts, text, extracted, engine, params, request, joined, result>>

\* evaluate_excedencia of call c runs to its end: the ruleset does not load and
\* nothing is evaluated, or decision.evaluate runs once on the moved request
TaskEvaluates(c) ==
    /\ calls[c].pc = "running"
    /\ \/ \E ruleset \in {r \in RulesetLoads : ~r.ok} :
            calls' = [calls EXCEPT
                ![c].engine = [request |-> MovedRequest(calls, c), ruleset |-> ruleset,
                               outcome |-> Nil],
                ![c].joined = Ok(EvaluateExcedencia(ruleset, Nil)),
                ![c].pc = "joined"]
       \/ \E ruleset \in {r \in RulesetLoads : r.ok},
             outcome \in ConcurrentOutcomes(MovedRequest(calls, c)) :
            calls' = [calls EXCEPT
                ![c].engine = [request |-> MovedRequest(calls, c), ruleset |-> ruleset,
                               outcome |-> outcome],
                ![c].evaluations = calls[c].evaluations + 1,
                ![c].joined = Ok(EvaluateExcedencia(ruleset, outcome)),
                ![c].pc = "joined"]
    /\ UNCHANGED <<pc, raw, decoded, wire, echo, parts, text, extracted, engine, params, request, joined, result>>

\* call c matches on its joined result and returns
Respond(c) ==
    /\ calls[c].pc = "joined"
    /\ calls' = [calls EXCEPT ![c].result = ToolResult(calls[c].joined),
                              ![c].pc = "returned"]
    /\ UNCHANGED <<pc, raw, decoded, wire, echo, parts, text, extracted, engine, params, request, joined, result>>

NextConcurrent ==
    \E c \in Calls :
        Invoke(c) \/ TaskStarts(c) \/ TaskFails(c) \/ TaskEvaluates(c) \/ Respond(c)

SpecConcurrent == InitConcurrent /\ [][NextConcurrent]_vars

(***************************************************************************)
(* The claims.                                                             *)
(***************************************************************************)
EndsWith(s, tail) ==
    Len(tail) <= Len(s) /\ SubSeq(s, Len(s) - Len(tail) + 1, Len(s)) = tail

\* the lines of a text: what lies between its line feeds
RECURSIVE LinesFrom(_, _)
LinesFrom(s, i) ==
    IF FindFrom(s, <<"\n">>, i) = 0 THEN <<SubSeq(s, i, Len(s))>>
    ELSE <<SubSeq(s, i, FindFrom(s, <<"\n">>, i) - 1)>> \o LinesFrom(s, FindFrom(s, <<"\n">>, i) + 1)

\* the call ended in a failure of the evaluation, of the given variant
EvaluationFailed(variant) ==
    pc = "returned" /\ joined.ok /\ ~joined.val.ok /\ joined.val.err.variant = variant

\* C1: whatever the isolated evaluation gave (a response, a validation, engine
\* or encoding failure, a panic or cancellation of the task), the operation
\* returns Ok with one tool result holding one text, an error result exactly
\* when there is no response, and it returns nothing before that.
C1_AlwaysOneToolResult ==
    /\ pc = "returned" =>
          /\ result.rust = "Ok"
          /\ Len(result.content) = 1
          /\ result.content[1].type = "text"
          /\ result.is_error = ~(joined.ok /\ joined.val.ok)
          /\ (result.is_error => Len(result.content[1].text) > 0)
    /\ pc # "returned" => result = Nil

C1_Witness ==
    /\ pc = "returned"
    /\ ~joined.ok
    /\ joined.err.display = <<"t", "a", "s", "k", " ", "1", " ", "p", "a", "n", "i", "c", "k", "e", "d">>
    /\ result.rust = "Ok"
    /\ result.is_error

\* C2: the report of a validation failure has, after its header, one line per
\* issue, in the order of the list, holding that issue's path and message.
C2_OneLinePerIssue ==
    EvaluationFailed("ValidationError") =>
        /\ result.is_error
        /\ Len(LinesFrom(result.content[1].text, 1)) = Len(joined.val.err.errors) + 2
        /\ LinesFrom(result.content[1].text, 1)[1] = <<"E", "r", "r", "o", "r", "e", "s", " ", "d", "e", " ", "v", "a", "l", "i", "d", "a", "c", "i", "o-acute", "n", ":">>
        /\ \A k \in 1..Len(joined.val.err.errors) :
              LinesFrom(result.content[1].text, 1)[k + 1]
                  = <<" ", " ", "-", " ", "C", "a", "m", "p", "o", " ", "'">> \o joined.val.err.errors[k].path
                      \o <<"'", ":", " ">> \o joined.val.err.errors[k].message

C2_Witness ==
    /\ EvaluationFailed("ValidationError")
    /\ Len(joined.val.err.errors) = 2
    /\ joined.val.err.errors[1] # joined.val.err.errors[2]
    /\ Contains(result.content[1].text, joined.val.err.errors[2].path)

\* C3: numero_hijos decodes to None when the caller gives null and when the
\* caller leaves the key out; neither is a decoding error.
C3_NullOrOmittedIsNone ==
    pc = "decoded" /\ raw.numero_hijos \in {JNull, JAbsent}
    /\ decoded.fields.familia_monoparental.ok
        => decoded.ok /\ decoded.val.numero_hijos = None

\* C4: the serialized input of the shaped request decodes back into an
\* ExcedenciaInput equal to the original, for a child count that is absent or
\* a finite number.
C4_RoundTrip ==
    pc = "echoed"
    /\ (decoded.val.numero_hijos.some => IsFinite(decoded.val.numero_hijos.v))
        => echo.ok /\ echo.val = ShapeRequest(decoded.val).input

\* a and b are the same but for the case of their letters
EqIgnoreCase(a, b) ==
    /\ Len(a) = Len(b)
    /\ \A i \in 1..Len(a) :
          \/ a[i] = b[i]
          \/ \E k \in 1..Len(UpperLetters) : {a[i], b[i]} = {UpperLetters[k], LowerLetters[k]}

\* C5: a native boolean decodes to itself; a string decodes to true or false if
\* it is "true" or "false" but for letter case, and any other string fails with
\* an error that ends with the literal.
C5_BoolCoercion ==
    pc = "decoded" =>
        /\ raw.familia_monoparental.t = "bool"
              => decoded.fields.familia_monoparental = Ok(raw.familia_monoparental.b)
        /\ raw.familia_monoparental.t = "str"
              => IF EqIgnoreCase(raw.familia_monoparental.s, <<"t", "r", "u", "e">>)
                 THEN decoded.fields.familia_monoparental = Ok(TRUE)
                 ELSE IF EqIgnoreCase(raw.familia_monoparental.s, <<"f", "a", "l", "s", "e">>)
                 THEN decoded.fields.familia_monoparental = Ok(FALSE)
                 ELSE /\ ~decoded.fields.familia_monoparental.ok
                      /\ EndsWith(decoded.fields.familia_monoparental.err,
                                  raw.familia_monoparental.s)
                      /\ ~decoded.ok

C5_Witness ==
    /\ pc = "decoded"
    /\ raw.familia_monoparental = JStr(<<"T", "r", "u", "e">>)
    /\ decoded.fields.familia_monoparental = Ok(TRUE)

NotNumbers == {<<"a", "b", "c">>, <<>>, <<" ", "3">>, <<"3", " ">>, <<"3", "x">>, <<".">>, <<"e", "1">>, <<"1", "e">>, <<"n", "u", "l", "l">>}

\* C6: the integer n, the float n, and the strings spelling n (with or without
\* .0) all decode to the present value n; a string that is no number fails.
C6_NumericCoercion ==
    pc = "decoded" =>
        /\ \A n \in 0..MaxInt :
              raw.numero_hijos \in {JU64(n), JF64(IntAsF64(n)), JStr(Spelling(n)),
                                    JStr(Spelling(n) \o <<".", "0">>)}
                  => decoded.fields.numero_hijos = Ok(Some([k |-> "fin", m |-> n, d |-> 0]))
        /\ raw.numero_hijos.t = "str" /\ raw.numero_hijos.s \in NotNumbers
              => ~decoded.fields.numero_hijos.ok /\ ~decoded.ok

C6_Witness ==
    /\ pc = "decoded"
    /\ raw.numero_hijos = JStr(<<"3">>)
    /\ decoded.fields.numero_hijos = Ok(Some([k |-> "fin", m |-> 3, d |-> 0]))

C8_HeuristicWholeMessage ==
    pc = "extracted" /\ parts.body.kind = "message"
    /\ Contains(parts.body.message, IsNotOneOf)
    /\ ~Contains(parts.pre, MessageKey)
    /\ ~Contains(text, PathKeyQuote)
    /\ (\A k \in 1..Len(patterns) : ~Contains(text, patterns[k][1]))
        => extracted = Some(<<[message |-> parts.body.message, path |-> UnknownPath]>>)

\* a text with none of the opening markers and without the phrase
Opaque(t) ==
    /\ \A k \in 1..Len(patterns) : ~Contains(t, patterns[k][1])
    /\ ~Contains(t, IsNotOneOf)

\* the engine failed and nothing in its diagnostic texts is recognizable
OpaqueEngineFailure ==
    /\ pc \in {"joined", "returned"}
    /\ joined.ok
    /\ engine.ruleset.ok
    /\ ~engine.outcome.ok
    /\ Opaque(engine.outcome.err.debug)
    /\ engine.outcome.err.kind = "NodeError" => Opaque(engine.outcome.err.source)

\* C9: an engine failure whose texts are opaque is an engine-internal failure
\* carrying the engine's error, never a validation failure.
C9_OpaqueIsEngineInternal ==
    OpaqueEngineFailure => joined = Ok(Err(ZenEngineError(engine.outcome.err)))

C9_Witness ==
    /\ OpaqueEngineFailure
    /\ engine.outcome.err.kind = "NodeError"
    /\ engine.outcome.err.source = <<"\"", "m", "e", "s", "s", "a", "g", "e", "\"", ":", "\"", "b", "o", "o", "m", "\"">>
    /\ pc = "returned"
    /\ StartsWith(result.content[1].text, <<"E", "r", "r", "o", "r", " ", "a", "l", " ", "e", "v", "a", "l", "u", "a", "r", ":", " ", "E", "r", "r", "o", "r", " ", "d", "e", "l", " ", "m", "o", "t", "o", "r">>)

\* C10: a join error, and only a join error, is reported as Error interno;
\* a failure of the evaluation is reported under one of the two other heads.
C10_InternalFailureDistinct ==
    pc = "returned" =>
        /\ ~joined.ok =>
              /\ result.is_error
              /\ StartsWith(result.content[1].text, ErrorInterno)
              /\ ~StartsWith(result.content[1].text, ErrorAlEvaluar)
              /\ ~StartsWith(result.content[1].text, ValidationHeader)
        /\ joined.ok /\ ~joined.val.ok =>
              /\ result.is_error
              /\ ~StartsWith(result.content[1].text, ErrorInterno)
              /\ \/ StartsWith(result.content[1].text, ErrorAlEvaluar)
                 \/ StartsWith(result.content[1].text, ValidationHeader)
        /\ joined.ok /\ joined.val.ok => ~result.is_error

C10_Witness ==
    /\ pc = "returned"
    /\ ~joined.ok
    /\ joined.err.display = <<"t", "a", "s", "k", " ", "1", " ", "w", "a", "s", " ", "c", "a", "n", "c", "e", "l", "l", "e", "d">>
    /\ StartsWith(result.content[1].text, ErrorInterno)

\* the evaluation ended with a response
EvaluationSucceeded ==
    pc \in {"joined", "returned"} /\ joined.ok /\ joined.val.ok

\* the response's output has the fields of the engine's output, an omitted
\* text or list being empty
OutputMatches(out, fields) ==
    /\ fields.descripcion = JStr(out.descripcion)
    /\ fields.importe_mensual.n = out.importe_mensual
    /\ \/ fields.requisitos_adicionales = JStr(out.requisitos_adicionales)
       \/ fields.requisitos_adicionales = JAbsent /\ out.requisitos_adicionales = <<>>
    /\ fields.supuesto = JStr(out.supuesto)
    /\ fields.tiene_derecho_potencial = JBool(out.tiene_derecho_potencial)
    /\ \/ fields.errores = JStrings(out.errores)
       \/ fields.errores = JAbsent /\ out.errores = <<>>
    /\ \/ fields.advertencias = JStrings(out.advertencias)
       \/ fields.advertencias = JAbsent /\ out.advertencias = <<>>

\* C11: on a successful evaluation the response has the seven output fields of
\* the engine's result, and its input echo is present and is the input of the
\* request, whatever the engine's result holds besides its output.
C11_OutputAndEcho ==
    EvaluationSucceeded =>
        /\ OutputMatches(joined.val.val.output, engine.outcome.val.output.fields)
        /\ joined.val.val.input = Some(request.input)

\* the values of one call k are what the call yields when it runs alone: its
\* request is shaped from its own parameters, the engine evaluated that
\* request and answered it, and the result is built from its own outcome
OwnValues(k) ==
    /\ k.pc = "idle" => k.request = Nil
    /\ k.pc # "idle" => k.request = ShapeRequest(k.params)
    /\ k.pc \in {"idle", "spawned", "running"} => k.joined = Nil /\ k.result = Nil
    /\ k.pc \in {"joined", "returned"} /\ k.joined.ok =>
          /\ k.engine.request = ShapeRequest(k.params)
          /\ k.engine.ruleset.ok =>
                k.engine.outcome \in EngineOutcomes(ShapeRequest(k.params))
          /\ k.joined = Ok(EvaluateExcedencia(k.engine.ruleset, k.engine.outcome))
    /\ k.pc = "returned" => k.result = ToolResult(k.joined)
    /\ k.pc = "returned" /\ k.joined.ok /\ k.joined.val.ok /\ k.joined.val.val.input.some =>
          k.joined.val.val.input.v = ShapeRequest(k.params).input

\* a step is the step of one call and leaves the values of the others alone
OneCallSteps == \E c \in Calls : \A d \in Calls \ {c} : calls'[d] = calls[d]

\* C12, as claimed: every returned call has run exactly one engine evaluation
\* and has the result it yields when run alone.
C12_ExactlyOneEvaluation ==
    \A c \in Calls :
        calls[c].pc = "returned" => calls[c].evaluations = 1 /\ OwnValues(calls[c])

\* C12, amended: in every interleaving each call runs at most one engine
\* evaluation, exactly one when its task ends normally with the ruleset loaded
\* and none before the task runs; its values are those it yields when run
\* alone; and every step changes the values of one call only.
C12_Isolated ==
    /\ [](\A c \in Calls :
            /\ calls[c].evaluations \in {0, 1}
            /\ calls[c].pc \in {"idle", "spawned", "running"} => calls[c].evaluations = 0
            /\ calls[c].pc \in {"joined", "returned"} /\ calls[c].joined.ok =>
                  calls[c].evaluations = (IF calls[c].engine.ruleset.ok THEN 1 ELSE 0)
            /\ OwnValues(calls[c]))
    /\ [][OneCallSteps]_vars

C12_Witness ==
    /\ calls[1].pc = "running"
    /\ calls[2].pc = "returned"
    /\ calls[1].params # calls[2].params
    /\ calls[2].evaluations = 1
    /\ ~calls[2].result.is_error
    /\ calls[2].joined.val.val.input = Some(ShapeRequest(calls[2].params).input)

\* what decoding the text between start and the end marker of pair k gives
DecodeBetween(t, k, start, endAt) ==
    IF endAt = 0 THEN Err(Nil)
    ELSE FromStrDetails(SubSeq(t, start, endAt + Len(patterns[k][2]) - 1))

\* the structured decode at marker pair k of a text
DecodeAt(t, k) ==
    IF Find(t, patterns[k][1]) = 0 THEN Err(Nil)
    ELSE DecodeBetween(t, k, Find(t, patterns[k][1]),
                       FindFrom(t, patterns[k][2],
                                Find(t, patterns[k][1]) + Len(patterns[k][1])))

\* the marker pairs of a text whose structured decode succeeds
Decoding(t) == {k \in 1..Len(patterns) : DecodeAt(t, k).ok}

\* C13: the answer is the structured decode of the first marker pair that
\* decodes, whatever the heuristic scan would find; the heuristic scan answers
\* only for a text in which no marker pair decodes.
C13_StructuredBeforeHeuristic ==
    pc = "extracted" =>
        IF Decoding(text) # {}
        THEN extracted = Some(DecodeAt(text, Min(Decoding(text))).val.source.errors)
        ELSE extracted = ManualExtractErrors(text)

\* the positions of the commas of a text, and the k-th of them (0 for k = 0,
\* one past the end of the text after the last)
CommasOf(t) == {i \in 1..Len(t) : t[i] = ","}

CommaNumber(t, k) ==
    IF k = 0 THEN 0
    ELSE IF k > Cardinality(CommasOf(t)) THEN Len(t) + 1
    ELSE CHOOSE i \in CommasOf(t) : Cardinality({x \in CommasOf(t) : x <= i}) = k

\* the k-th comma-separated fragment of a text
Fragment(t, k) == SubSeq(t, CommaNumber(t, k - 1) + 1, CommaNumber(t, k) - 1)

\* where the value of a key starts in a fragment, and the quotes that may close it
ValueStart(f, keyQuote) == Find(f, keyQuote) + Len(keyQuote)

ClosingQuotes(f, keyQuote) == {j \in ValueStart(f, keyQuote)..Len(f) : f[j] = "\""}

\* the fragments of a text holding a closed value of a key
ClosedIn(t, keyQuote) ==
    {k \in 1..(Cardinality(CommasOf(t)) + 1) :
        /\ Find(Fragment(t, k), keyQuote) # 0
        /\ ClosingQuotes(Fragment(t, k), keyQuote) # {}}

\* the quoted content of a key in a fragment that holds a closed value of it
ContentOf(f, keyQuote) ==
    SubSeq(f, ValueStart(f, keyQuote), Min(ClosingQuotes(f, keyQuote)) - 1)

\* the content of the last fragment of a text holding a closed value of a key
LastContent(t, keyQuote) ==
    ContentOf(Fragment(t, CHOOSE k \in ClosedIn(t, keyQuote) :
                              \A j \in ClosedIn(t, keyQuote) : j <= k), keyQuote)

\* what C14 says of the message, and what holds of the result in every case
MessageIsLast ==
    /\ extracted.some => Len(extracted.v) = 1
    /\ ~Contains(text, IsNotOneOf) => extracted = None
    /\ extracted.some =>
          /\ extracted.v[1].message # <<>>
          /\ ClosedIn(text, MessageKeyQuote) # {}
          /\ extracted.v[1].message = LastContent(text, MessageKeyQuote)
          /\ extracted.v[1].path # <<>>

\* C14, as claimed: the path of the issue is the content of the last fragment
\* holding a closed path value, or /input/unknown when there is no such fragment.
C14_PathIsLastOrSentinel ==
    pc = "scanned" =>
        /\ MessageIsLast
        /\ extracted.some =>
              extracted.v[1].path = (IF ClosedIn(text, PathKeyQuote) = {} THEN UnknownPath
                                     ELSE LastContent(text, PathKeyQuote))

\* C14, amended: the path of the issue is the content of the last fragment
\* holding a closed path value, or /input/unknown when there is no such fragment
\* or when that content is empty.
C14_PathIsLastNonEmptyOrSentinel ==
    pc = "scanned" =>
        /\ MessageIsLast
        /\ extracted.some =>
              extracted.v[1].path =
                  (IF ClosedIn(text, PathKeyQuote) = {} THEN UnknownPath
                   ELSE IF LastContent(text, PathKeyQuote) = <<>> THEN UnknownPath
                   ELSE LastContent(text, PathKeyQuote))

C14_Witness ==
    /\ pc = "scanned"
    /\ parts.body = [kind |-> "other",
                     body |-> <<"\"", "m", "e", "s", "s", "a", "g", "e", "\"", ":", "\"", "f", "i", "r", "s", "t", " ", "i", "s", " ", "n", "o", "t", " ", "o", "n", "e", " ", "o", "f", " ", "[", "a", "]", "\"", ",", "\"", "m", "e", "s", "s", "a", "g", "e", "\"", ":", "\"", "s", "e", "c", "o", "n", "d", "\"">>]
    /\ parts.suf = <<",", " ", "\"", "p", "a", "t", "h", "\"", ":", "\"", "/", "l", "a", "t", "e", "\"">>
    /\ extracted = Some(<<[message |-> <<"s", "e", "c", "o", "n", "d">>, path |-> <<"/", "l", "a", "t", "e">>]>>)

====
